---- MODULE Spec2Model ----
(***************************************************************************)
(* Model of the BlueprintExporter plugin: the UBlueprintChangeMonitor      *)
(* state machine and the UBlueprintExporterLibrary serialization walk      *)
(* (BlueprintExporter.cpp / BlueprintExporter.h).                          *)
(***************************************************************************)
EXTENDS Integers, Sequences, FiniteSets, TLC

\* ------------------------------------------------------------------------
\* Bounds
\* ------------------------------------------------------------------------
\* Longest invocation list of one asset-registry multicast delegate.
MaxBindings == 3
\* Most top-level graphs, function graphs and nodes of one Blueprint in the
\* dependency inputs.
MaxGraphs == 2
MaxFunctionGraphs == 1
MaxNodes == 2
\* Most wires of one graph in the wiring inputs.
MaxWires == 3
\* Most pins of the node, and most variables, in the node inputs.
MaxPins == 1
MaxVariables == 2
\* Most entries of FunctionGraphs, and most pins of all entry nodes of one
\* Blueprint, in the function inputs.
MaxFunctions == 2
MaxParams == 3
\* Most entries of the asset registry in the registry inputs.
MaxAssets == 3

\* ------------------------------------------------------------------------
\* Shared values
\* ------------------------------------------------------------------------
\* The null pointer.  Objects are records, so nullptr is one too.
Null == [nullptr |-> TRUE]

Range(s) == {s[i] : i \in 1..Len(s)}

SeqsUpTo(S, n) == UNION {[1..k -> S] : k \in 0..n}

\* ========================================================================
\* Blueprint Change Monitor
\* ========================================================================
Monitors == {"M1", "M2"}

\* Values a FOnBlueprintChanged delegate can hold; Unbound is a delegate
\* with no function bound to it.
Unbound == "Unbound"
Callbacks == {"cb1", "cb2"}

\* UBlueprint::StaticClass()->GetClassPathName()
BlueprintClassPath == "Blueprint"

\* Objects the registry can hand out.  Class is the class path the registry
\* records for the asset; UWidgetBlueprint is a subclass of UBlueprint.
BP_Door == [Name |-> "BP_Door", Class |-> "Blueprint"]
WBP_Menu == [Name |-> "WBP_Menu", Class |-> "WidgetBlueprint"]
T_Wood == [Name |-> "T_Wood", Class |-> "Texture2D"]

AssetObjects == {BP_Door, WBP_Menu, T_Wood}

\* Cast<UBlueprint>(Object): the object itself when it is a UBlueprint or an
\* instance of a subclass, nullptr otherwise and for nullptr.
CastBlueprint(obj) ==
    IF obj # Null /\ obj.Class \in {"Blueprint", "WidgetBlueprint"} THEN obj ELSE Null

\* FAssetData delivered with an event: the class path recorded by the
\* registry and the outcome of GetAsset(), which is nullptr when the
\* package cannot be loaded.
AssetDatas ==
    {[AssetClassPath |-> o.Class, Asset |-> a] : o \in AssetObjects, a \in {Null}} \cup
    {[AssetClassPath |-> o.Class, Asset |-> o] : o \in AssetObjects}

VARIABLES
    OnBlueprintChangedDelegate, \* per monitor: the stored callback
    RegOnAssetAdded,            \* invocation list of AssetRegistry.OnAssetAdded()
    RegOnAssetRemoved,          \* invocation list of AssetRegistry.OnAssetRemoved()
    RegOnAssetUpdated,          \* invocation list of AssetRegistry.OnAssetUpdated()
    calls,                      \* per monitor: callback invocations made by the last step
    lastOp,                     \* the operation the last step performed
    Blueprint,                  \* argument of the export call: a UBlueprint or nullptr
    pc,                         \* "ready" before the export call, "done" after it
    ret,                        \* what the export call returned
    Files,                      \* documents SaveStringToFile has written, by path
    AssetRegistry               \* the FAssetData entries of the asset registry

expVars == <<Blueprint, pc, ret, Files, AssetRegistry>>

monVars == <<OnBlueprintChangedDelegate, RegOnAssetAdded, RegOnAssetRemoved,
             RegOnAssetUpdated, calls, lastOp>>

vars == <<OnBlueprintChangedDelegate, RegOnAssetAdded, RegOnAssetRemoved,
          RegOnAssetUpdated, calls, lastOp, Blueprint, pc, ret, Files, AssetRegistry>>

NoCalls == [m \in Monitors |-> <<>>]

\* TMulticastDelegate::AddUObject: appends one more binding for the object;
\* existing bindings of the same object are kept.
AddUObject(list, m) == Append(list, m)

\* Variant of RemoveAll that drops only the first binding of the object, as
\* removing by one delegate handle would.
RemoveAll_FirstOnly(list, m) ==
    LET hits == {i \in 1..Len(list) : list[i] = m}
    IN  IF hits = {} THEN list
        ELSE LET i == CHOOSE j \in hits : \A k \in hits : j <= k
             IN  SubSeq(list, 1, i - 1) \o SubSeq(list, i + 1, Len(list))

\* TMulticastDelegate::RemoveAll(Object): drops every binding of the object.
RemoveAll(list, m) == SelectSeq(list, LAMBDA b : b # m)

\* Number of bindings of monitor m in an invocation list.
Bindings(list, m) == Cardinality({i \in 1..Len(list) : list[i] = m})

\* TDelegate::ExecuteIfBound: one invocation record when bound, none otherwise.
ExecuteIfBound(cb, arg) ==
    IF cb # Unbound THEN <<[callback |-> cb, arg |-> arg]>> ELSE <<>>

\* UBlueprintChangeMonitor::OnAssetAdded: the invocations one run of the
\* handler makes.
OnAssetAdded(m, AssetData) ==
    IF AssetData.AssetClassPath = BlueprintClassPath
    THEN IF CastBlueprint(AssetData.Asset) # Null
         THEN ExecuteIfBound(OnBlueprintChangedDelegate[m], CastBlueprint(AssetData.Asset))
         ELSE <<>>
    ELSE <<>>

\* UBlueprintChangeMonitor::OnAssetRemoved: empty body.
OnAssetRemoved(m, AssetData) == <<>>

\* Variant of OnAssetModified without the class-path test.
OnAssetModified_NoClassPathTest(m, AssetData) ==
    IF CastBlueprint(AssetData.Asset) # Null
    THEN ExecuteIfBound(OnBlueprintChangedDelegate[m], CastBlueprint(AssetData.Asset))
    ELSE <<>>

\* UBlueprintChangeMonitor::OnAssetModified
OnAssetModified(m, AssetData) ==
    IF AssetData.AssetClassPath = BlueprintClassPath
    THEN IF CastBlueprint(AssetData.Asset) # Null
         THEN ExecuteIfBound(OnBlueprintChangedDelegate[m], CastBlueprint(AssetData.Asset))
         ELSE <<>>
    ELSE <<>>

\* The handler AddUObject bound to the invocation list of an event class.
Handler(class, m, AssetData) ==
    CASE class = "added"    -> OnAssetAdded(m, AssetData)
      [] class = "removed"  -> OnAssetRemoved(m, AssetData)
      [] class = "modified" -> OnAssetModified(m, AssetData)

\* TMulticastDelegate::Broadcast as seen by monitor m: the handler runs once
\* for every binding of m in the invocation list.
RECURSIVE Dispatch(_, _, _, _)
Dispatch(list, m, class, AssetData) ==
    IF list = <<>> THEN <<>>
    ELSE (IF Head(list) = m THEN Handler(class, m, AssetData) ELSE <<>>)
         \o Dispatch(Tail(list), m, class, AssetData)

InitMonitor ==
    /\ OnBlueprintChangedDelegate = [m \in Monitors |-> Unbound]
    /\ RegOnAssetAdded = <<>>
    /\ RegOnAssetRemoved = <<>>
    /\ RegOnAssetUpdated = <<>>
    /\ calls = NoCalls
    /\ lastOp = [op |-> "Init"]

\* UBlueprintChangeMonitor::StartMonitoring(OnChanged)
StartMonitoring(m, OnChanged) ==
    /\ Len(RegOnAssetAdded) < MaxBindings
    /\ OnBlueprintChangedDelegate' = [OnBlueprintChangedDelegate EXCEPT ![m] = OnChanged]
    /\ RegOnAssetAdded' = AddUObject(RegOnAssetAdded, m)
    /\ RegOnAssetRemoved' = AddUObject(RegOnAssetRemoved, m)
    /\ RegOnAssetUpdated' = AddUObject(RegOnAssetUpdated, m)
    /\ calls' = NoCalls
    /\ lastOp' = [op |-> "StartMonitoring", m |-> m, cb |-> OnChanged]
    /\ UNCHANGED expVars

\* UBlueprintChangeMonitor::StopMonitoring()
StopMonitoring(m) ==
    /\ RegOnAssetAdded' = RemoveAll(RegOnAssetAdded, m)
    /\ RegOnAssetRemoved' = RemoveAll(RegOnAssetRemoved, m)
    /\ RegOnAssetUpdated' = RemoveAll(RegOnAssetUpdated, m)
    /\ calls' = NoCalls
    /\ lastOp' = [op |-> "StopMonitoring", m |-> m]
    /\ UNCHANGED OnBlueprintChangedDelegate
    /\ UNCHANGED expVars

\* The registry broadcasts an asset-added event: every binding of
\* OnAssetAdded() runs UBlueprintChangeMonitor::OnAssetAdded on its monitor.
BroadcastAssetAdded(AssetData) ==
    /\ calls' = [m \in Monitors |-> Dispatch(RegOnAssetAdded, m, "added", AssetData)]
    /\ lastOp' = [op |-> "Event", class |-> "added", data |-> AssetData]
    /\ UNCHANGED <<OnBlueprintChangedDelegate, RegOnAssetAdded, RegOnAssetRemoved,
                   RegOnAssetUpdated>>
    /\ UNCHANGED expVars

\* The registry broadcasts an asset-removed event.
BroadcastAssetRemoved(AssetData) ==
    /\ calls' = [m \in Monitors |-> Dispatch(RegOnAssetRemoved, m, "removed", AssetData)]
    /\ lastOp' = [op |-> "Event", class |-> "removed", data |-> AssetData]
    /\ UNCHANGED <<OnBlueprintChangedDelegate, RegOnAssetAdded, RegOnAssetRemoved,
                   RegOnAssetUpdated>>
    /\ UNCHANGED expVars

\* The registry broadcasts an asset-updated (modified) event.
BroadcastAssetUpdated(AssetData) ==
    /\ calls' = [m \in Monitors |-> Dispatch(RegOnAssetUpdated, m, "modified", AssetData)]
    /\ lastOp' = [op |-> "Event", class |-> "modified", data |-> AssetData]
    /\ UNCHANGED <<OnBlueprintChangedDelegate, RegOnAssetAdded, RegOnAssetRemoved,
                   RegOnAssetUpdated>>
    /\ UNCHANGED expVars

StartStep == \E m \in Monitors, cb \in Callbacks \cup {Unbound} : StartMonitoring(m, cb)
StopStep == \E m \in Monitors : StopMonitoring(m)
AddedStep == \E d \in AssetDatas : BroadcastAssetAdded(d)
RemovedStep == \E d \in AssetDatas : BroadcastAssetRemoved(d)
UpdatedStep == \E d \in AssetDatas : BroadcastAssetUpdated(d)

NextMonitor ==
    \/ StartStep
    \/ StopStep
    \/ AddedStep
    \/ RemovedStep
    \/ UpdatedStep

\* No export call is in progress.
ExportIdle ==
    /\ Blueprint = Null
    /\ pc = "idle"
    /\ ret = [fn |-> "none"]
    /\ Files = <<>>
    /\ AssetRegistry = <<>>

\* The monitors after construction, with no export call in progress.
Init == InitMonitor /\ ExportIdle

Spec == Init /\ [][NextMonitor]_vars

\* ------------------------------------------------------------------------
\* Properties of the Change Monitor
\* ------------------------------------------------------------------------
\* Monitoring: the monitor holds a subscription; Idle: it holds none.
Monitoring(m) ==
    \/ Bindings(RegOnAssetAdded, m) > 0
    \/ Bindings(RegOnAssetRemoved, m) > 0
    \/ Bindings(RegOnAssetUpdated, m) > 0

Idle(m) == ~Monitoring(m)

\* The last step was an event whose handler reaches the callback test.
IsEvent == lastOp.op = "Event"

\* C1: after StartMonitoring a monitor holds exactly one subscription per
\* event class, however many StartMonitoring calls were made since the last
\* StopMonitoring, and a matching asset-added or asset-modified event
\* invokes the stored callback exactly once.
C1_OneSubscriptionPerStart ==
    \A m \in Monitors :
        /\ (lastOp.op = "StartMonitoring" /\ lastOp.m = m) =>
                /\ Bindings(RegOnAssetAdded, m) = 1
                /\ Bindings(RegOnAssetRemoved, m) = 1
                /\ Bindings(RegOnAssetUpdated, m) = 1
        /\ (/\ IsEvent /\ Monitoring(m)
            /\ OnBlueprintChangedDelegate[m] # Unbound
            /\ lastOp.class \in {"added", "modified"}
            /\ lastOp.data.AssetClassPath = BlueprintClassPath
            /\ lastOp.data.Asset # Null) => Len(calls[m]) = 1

\* C2: StopMonitoring leaves the monitor with no subscription on any of the
\* three event classes; an Idle monitor stays Idle and has no callback
\* invoked by any step other than its own StartMonitoring; StopMonitoring on
\* an Idle monitor changes neither the invocation lists nor the callback.
C2_StopMonitoringMakesIdle ==
    /\ [](\A m \in Monitors :
            /\ (lastOp.op = "StopMonitoring" /\ lastOp.m = m) =>
                    /\ Bindings(RegOnAssetAdded, m) = 0
                    /\ Bindings(RegOnAssetRemoved, m) = 0
                    /\ Bindings(RegOnAssetUpdated, m) = 0
            /\ Idle(m) => calls[m] = <<>>)
    /\ [][\A m \in Monitors :
            /\ (Idle(m) /\ ~(lastOp'.op = "StartMonitoring" /\ lastOp'.m = m)) =>
                    (Idle(m)' /\ calls'[m] = <<>>)
            /\ (Idle(m) /\ lastOp'.op = "StopMonitoring" /\ lastOp'.m = m) =>
                    UNCHANGED <<OnBlueprintChangedDelegate, RegOnAssetAdded,
                                RegOnAssetRemoved, RegOnAssetUpdated>>]_vars

\* C2 witness: M1 was started with a callback and then stopped; a
\* Blueprint asset-added event reaches M2, which is Monitoring, and not M1.
C2_Witness ==
    /\ IsEvent /\ lastOp.class = "added"
    /\ lastOp.data = [AssetClassPath |-> "Blueprint", Asset |-> BP_Door]
    /\ Idle("M1") /\ OnBlueprintChangedDelegate["M1"] = "cb2"
    /\ calls["M1"] = <<>>
    /\ Monitoring("M2") /\ calls["M2"] # <<>>

\* C3 as stated: while Monitoring with a callback set, the callback is
\* invoked on an event iff the event class is asset-added or asset-modified
\* and the event's asset is of the monitored kind.
C3_InvokedIffKindMatches ==
    \A m \in Monitors :
        (IsEvent /\ Monitoring(m) /\ OnBlueprintChangedDelegate[m] # Unbound) =>
            (calls[m] # <<>> <=>
                /\ lastOp.class \in {"added", "modified"}
                /\ lastOp.data.AssetClassPath = BlueprintClassPath)

\* C3 amended: while Monitoring with a callback set, the callback is invoked
\* on an event iff the event class is asset-added or asset-modified, the
\* event's asset is of the monitored kind and the asset object could be
\* obtained; every invocation passes the stored callback that asset.  An
\* asset-removed event, an event of another kind, an Idle monitor or an
\* unset callback invokes nothing.
C3_InvokedIffKindMatchesAndLoaded ==
    \A m \in Monitors :
        /\ (IsEvent /\ Monitoring(m) /\ OnBlueprintChangedDelegate[m] # Unbound) =>
              /\ calls[m] # <<>> <=>
                    /\ lastOp.class \in {"added", "modified"}
                    /\ lastOp.data.AssetClassPath = BlueprintClassPath
                    /\ lastOp.data.Asset # Null
              /\ \A i \in 1..Len(calls[m]) :
                    /\ calls[m][i].callback = OnBlueprintChangedDelegate[m]
                    /\ calls[m][i].arg = lastOp.data.Asset
        /\ (IsEvent /\ lastOp.class = "removed") => calls[m] = <<>>
        /\ (IsEvent /\ lastOp.data.AssetClassPath # BlueprintClassPath) => calls[m] = <<>>
        /\ (Idle(m) \/ OnBlueprintChangedDelegate[m] = Unbound) => calls[m] = <<>>

\* C3 witness: a Monitoring monitor with callback cb1 receives a Blueprint
\* asset-modified event and invokes cb1 with the asset.
C3_Witness ==
    /\ IsEvent /\ lastOp.class = "modified"
    /\ lastOp.data = [AssetClassPath |-> "Blueprint", Asset |-> BP_Door]
    /\ Bindings(RegOnAssetUpdated, "M1") = 1
    /\ calls["M1"] = <<[callback |-> "cb1", arg |-> BP_Door]>>

\* ========================================================================
\* Blueprint Exporter Library: the graph data it reads
\* ========================================================================
\* A UBlueprint is a record
\*   [Name, PathName, ParentClass, GeneratedClass, UbergraphPages,
\*    FunctionGraphs, NewVariables, SimpleConstructionScript];
\* a UEdGraph is [Name, Nodes]; a UEdGraphNode is
\*   [Name, Class, Title, MenuCategory, NodePosX, NodePosY, Pins,
\*    MemberParentClass];
\* a UEdGraphPin is
\*   [PinName, DisplayName, Direction, PinType, DefaultValue, DefaultObject,
\*    LinkedTo], LinkedTo holding pin references [OwningNode, PinName];
\* pointers that may be null hold Null.

\* Parent of a node class in the engine's class hierarchy.
SuperClass(c) ==
    CASE c = "K2Node_CustomEvent"        -> "K2Node_Event"
      [] c = "K2Node_Event"              -> "K2Node_EditablePinBase"
      [] c = "K2Node_FunctionEntry"      -> "K2Node_FunctionTerminator"
      [] c = "K2Node_FunctionTerminator" -> "K2Node_EditablePinBase"
      [] c = "K2Node_EditablePinBase"    -> "K2Node"
      [] c = "K2Node_CallArrayFunction"  -> "K2Node_CallFunction"
      [] c = "K2Node_CallFunction"       -> "K2Node"
      [] c = "K2Node_VariableGet"        -> "K2Node_Variable"
      [] c = "K2Node_VariableSet"        -> "K2Node_Variable"
      [] c = "K2Node_Variable"           -> "K2Node"
      [] c = "K2Node_IfThenElse"         -> "K2Node"
      [] c = "K2Node"                    -> "EdGraphNode"
      [] c = "EdGraphNode_Comment"       -> "EdGraphNode"
      [] OTHER                           -> "Object"

\* UObject::IsA: c is base or derives from it.
RECURSIVE IsA(_, _)
IsA(c, base) ==
    IF c = base THEN TRUE
    ELSE IF c = "Object" THEN FALSE
    ELSE IsA(SuperClass(c), base)

\* Cast<T>(Node): the node when it is a T, nullptr otherwise and for nullptr.
Cast(base, Node) ==
    IF Node # Null /\ IsA(Node.Class, base) THEN Node ELSE Null

\* UEdGraphSchema_K2::PC_Exec and PC_Object
PC_Exec == "exec"
PC_Object == "object"

\* The elements of a sequence that are not nullptr, in order.
NonNull(seq) == SelectSeq(seq, LAMBDA e : e # Null)

\* The sequence <<F(seq[1]), ..., F(seq[n])>>.
Map(F(_), seq) == [i \in 1..Len(seq) |-> F(seq[i])]

\* Concatenation of a sequence of sequences.
RECURSIVE Flatten(_)
Flatten(seqs) ==
    IF seqs = <<>> THEN <<>> ELSE Head(seqs) \o Flatten(Tail(seqs))

\* Variant of AddUnique that appends without looking for the element.
AddUnique_Always(arr, e) == Append(arr, e)

\* TArray::AddUnique: appends the element unless the array holds it already.
AddUnique(arr, e) == IF e \in Range(arr) THEN arr ELSE Append(arr, e)

\* ------------------------------------------------------------------------
\* Helper functions
\* ------------------------------------------------------------------------
\* UBlueprintExporterLibrary::PinTypeToString
PinTypeToString(PinType) ==
    LET Base == PinType.PinCategory
        WithSub == IF PinType.PinSubCategoryObject # Null
                   THEN Base \o "<" \o PinType.PinSubCategoryObject.Name \o ">"
                   ELSE Base
    IN  IF PinType.IsArray THEN "Array<" \o WithSub \o ">" ELSE WithSub

\* Variant of NodeTypeToString without the UK2Node_VariableSet test.
NodeTypeToString_NoVariableSet(Node) ==
    IF Node = Null THEN "Unknown"
    ELSE IF Cast("K2Node_Event", Node) # Null THEN "Event"
    ELSE IF Cast("K2Node_FunctionEntry", Node) # Null THEN "FunctionEntry"
    ELSE IF Cast("K2Node_CallFunction", Node) # Null THEN "CallFunction"
    ELSE IF Cast("K2Node_VariableGet", Node) # Null THEN "VariableGet"
    ELSE Node.Class

\* UBlueprintExporterLibrary::NodeTypeToString
NodeTypeToString(Node) ==
    IF Node = Null THEN "Unknown"
    ELSE IF Cast("K2Node_Event", Node) # Null THEN "Event"
    ELSE IF Cast("K2Node_FunctionEntry", Node) # Null THEN "FunctionEntry"
    ELSE IF Cast("K2Node_CallFunction", Node) # Null THEN "CallFunction"
    ELSE IF Cast("K2Node_VariableGet", Node) # Null THEN "VariableGet"
    ELSE IF Cast("K2Node_VariableSet", Node) # Null THEN "VariableSet"
    ELSE Node.Class

\* UBlueprintExporterLibrary::GetNodeCategory
GetNodeCategory(Node) ==
    IF Cast("K2Node", Node) # Null THEN Node.MenuCategory ELSE ""

\* The owning nodes AddUnique collects from one pin's LinkedTo array.
RECURSIVE AddLinked(_, _)
AddLinked(ConnectedNodes, LinkedTo) ==
    IF LinkedTo = <<>> THEN ConnectedNodes
    ELSE LET LinkedPin == Head(LinkedTo)
         IN  AddLinked(IF LinkedPin # Null /\ LinkedPin.OwningNode # Null
                       THEN AddUnique(ConnectedNodes, LinkedPin.OwningNode)
                       ELSE ConnectedNodes,
                       Tail(LinkedTo))

\* The pin loop of GetConnectedNodes, from the array collected so far.
RECURSIVE ConnectedFrom(_, _)
ConnectedFrom(ConnectedNodes, Pins) ==
    IF Pins = <<>> THEN ConnectedNodes
    ELSE LET Pin == Head(Pins)
         IN  ConnectedFrom(IF Pin # Null /\ Pin.Direction = "EGPD_Output"
                           THEN AddLinked(ConnectedNodes, Pin.LinkedTo)
                           ELSE ConnectedNodes,
                           Tail(Pins))

\* UBlueprintExporterLibrary::GetConnectedNodes
GetConnectedNodes(Node) == ConnectedFrom(<<>>, Node.Pins)

\* ------------------------------------------------------------------------
\* Serialization functions.  An FJsonObject is a function from its field
\* names to their values; a field that was never set is not in its domain.
\* ------------------------------------------------------------------------
\* Variant of SerializePin that sets default_value without the IsEmpty test.
SerializePin_AlwaysDefault(Pin) ==
    [name |-> Pin.PinName,
     display_name |-> Pin.DisplayName,
     direction |-> IF Pin.Direction = "EGPD_Input" THEN "input" ELSE "output",
     type |-> PinTypeToString(Pin.PinType),
     default_value |-> Pin.DefaultValue]

\* UBlueprintExporterLibrary::SerializePin
SerializePin(Pin) ==
    LET PinObject ==
            [name |-> Pin.PinName,
             display_name |-> Pin.DisplayName,
             direction |-> IF Pin.Direction = "EGPD_Input" THEN "input" ELSE "output",
             type |-> PinTypeToString(Pin.PinType)]
    IN  IF Pin.DefaultValue # ""
        THEN ("default_value" :> Pin.DefaultValue) @@ PinObject
        ELSE PinObject

\* UBlueprintExporterLibrary::SerializeNode
SerializeNode(Node) ==
    [id |-> Node.Name,
     type |-> NodeTypeToString(Node),
     title |-> Node.Title,
     category |-> GetNodeCategory(Node),
     position |-> [x |-> Node.NodePosX, y |-> Node.NodePosY],
     pins |-> Map(SerializePin, NonNull(Node.Pins)),
     connections |-> Map(LAMBDA ConnectedNode : ConnectedNode.Name,
                         GetConnectedNodes(Node))]

\* UBlueprintExporterLibrary::SerializeGraph
SerializeGraph(Graph) ==
    [name |-> Graph.Name,
     nodes |-> Map(SerializeNode, NonNull(Graph.Nodes))]

\* One record of SerializeVariables.
SerializeVariable(Variable) ==
    LET VarObject ==
            [name |-> Variable.VarName,
             type |-> PinTypeToString(Variable.VarType),
             category |-> Variable.Category,
             is_exposed |-> "CPF_ExposeOnSpawn" \in Variable.PropertyFlags]
    IN  IF Variable.DefaultValue # ""
        THEN ("default_value" :> Variable.DefaultValue) @@ VarObject
        ELSE VarObject

\* UBlueprintExporterLibrary::SerializeVariables
SerializeVariables(Bp) == Map(SerializeVariable, Bp.NewVariables)

\* Variant of ParamsOfNode without the exec-category test.
ParamsOfNode_WithExec(Node) ==
    IF Cast("K2Node_FunctionEntry", Node) # Null
    THEN Map(LAMBDA Pin : [name |-> Pin.PinName, type |-> PinTypeToString(Pin.PinType)],
             SelectSeq(Node.Pins,
                       LAMBDA Pin : Pin # Null /\ Pin.Direction = "EGPD_Output"))
    ELSE <<>>

\* The parameter records SerializeFunctions derives from one node.
ParamsOfNode(Node) ==
    IF Cast("K2Node_FunctionEntry", Node) # Null
    THEN Map(LAMBDA Pin : [name |-> Pin.PinName, type |-> PinTypeToString(Pin.PinType)],
             SelectSeq(Node.Pins,
                       LAMBDA Pin : /\ Pin # Null
                                    /\ Pin.Direction = "EGPD_Output"
                                    /\ Pin.PinType.PinCategory # PC_Exec))
    ELSE <<>>

\* One record of SerializeFunctions.
SerializeFunction(FunctionGraph) ==
    [name |-> FunctionGraph.Name,
     parameters |-> Flatten(Map(ParamsOfNode, FunctionGraph.Nodes)),
     graph |-> SerializeGraph(FunctionGraph)]

\* UBlueprintExporterLibrary::SerializeFunctions
SerializeFunctions(Bp) == Map(SerializeFunction, NonNull(Bp.FunctionGraphs))

\* UBlueprintExporterLibrary::SerializeComponents
SerializeComponents(Bp) ==
    IF Bp.SimpleConstructionScript # Null
    THEN Map(LAMBDA Node : [name |-> Node.VariableName,
                            class |-> Node.ComponentTemplate.Class],
             SelectSeq(Bp.SimpleConstructionScript.AllNodes,
                       LAMBDA Node : Node # Null /\ Node.ComponentTemplate # Null))
    ELSE <<>>

\* The references ExtractDependencies tests on one node, in the order it
\* tests them: the member parent class of a call node, then the default
\* objects of the node's object pins.  Each is an FString path.
PathsOfNode(Node) ==
    (IF Cast("K2Node_CallFunction", Node) # Null /\ Node.MemberParentClass # Null
     THEN <<Node.MemberParentClass.PathName>>
     ELSE <<>>)
    \o Map(LAMBDA Pin : Pin.DefaultObject.PathName,
           SelectSeq(Node.Pins,
                     LAMBDA Pin : /\ Pin # Null
                                  /\ Pin.PinType.PinCategory = PC_Object
                                  /\ Pin.DefaultObject # Null))

\* Variant of AddDependencies without the UniqueDependencies test.
RECURSIVE AddDependencies_NoContainsTest(_, _)
AddDependencies_NoContainsTest(DependenciesArray, Paths) ==
    IF Paths = <<>> THEN DependenciesArray
    ELSE AddDependencies_NoContainsTest(IF Head(Paths) # ""
                                        THEN Append(DependenciesArray, Head(Paths))
                                        ELSE DependenciesArray,
                                        Tail(Paths))

\* The test-and-append ExtractDependencies applies to each path:
\* DependenciesArray after the paths have been offered in order.
RECURSIVE AddDependencies(_, _)
AddDependencies(DependenciesArray, Paths) ==
    IF Paths = <<>> THEN DependenciesArray
    ELSE LET Path == Head(Paths)
         IN  AddDependencies(IF Path # "" /\ Path \notin Range(DependenciesArray)
                             THEN Append(DependenciesArray, Path)
                             ELSE DependenciesArray,
                             Tail(Paths))

\* Variant of DependencyGraphs that walks the function graphs as well.
DependencyGraphs_WithFunctionGraphs(Bp) ==
    NonNull(Bp.UbergraphPages) \o NonNull(Bp.FunctionGraphs)

\* The graphs ExtractDependencies walks.
DependencyGraphs(Bp) == NonNull(Bp.UbergraphPages)

\* UBlueprintExporterLibrary::ExtractDependencies
ExtractDependencies(Bp) ==
    AddDependencies(<<>>,
        Flatten(Map(LAMBDA Graph : Flatten(Map(PathsOfNode, NonNull(Graph.Nodes))),
                    DependencyGraphs(Bp))))

\* Variant of SerializeBlueprint that sets parent_class without the null
\* test, to the empty string when there is no parent class.
SerializeBlueprint_AlwaysParent(Bp) ==
    LET Basic == [name |-> Bp.Name,
                  path |-> Bp.PathName,
                  class_type |-> "Blueprint",
                  parent_class |-> IF Bp.ParentClass # Null THEN Bp.ParentClass.Name ELSE "",
                  graphs |-> Map(SerializeGraph, NonNull(Bp.UbergraphPages))
                             \o Map(SerializeGraph, NonNull(Bp.FunctionGraphs)),
                  variables |-> SerializeVariables(Bp),
                  functions |-> SerializeFunctions(Bp),
                  components |-> SerializeComponents(Bp),
                  dependencies |-> ExtractDependencies(Bp)]
    IN  IF Bp.GeneratedClass # Null
        THEN ("generated_class" :> Bp.GeneratedClass.Name) @@ Basic
        ELSE Basic

\* UBlueprintExporterLibrary::SerializeBlueprint
SerializeBlueprint(Bp) ==
    LET Basic == [name |-> Bp.Name,
                  path |-> Bp.PathName,
                  class_type |-> "Blueprint",
                  graphs |-> Map(SerializeGraph, NonNull(Bp.UbergraphPages))
                             \o Map(SerializeGraph, NonNull(Bp.FunctionGraphs)),
                  variables |-> SerializeVariables(Bp),
                  functions |-> SerializeFunctions(Bp),
                  components |-> SerializeComponents(Bp),
                  dependencies |-> ExtractDependencies(Bp)]
        Parent == IF Bp.ParentClass # Null
                  THEN ("parent_class" :> Bp.ParentClass.Name) @@ Basic
                  ELSE Basic
    IN  IF Bp.GeneratedClass # Null
        THEN ("generated_class" :> Bp.GeneratedClass.Name) @@ Parent
        ELSE Parent

\* FJsonObject without fields.
EmptyObject == [field \in {} |-> Null]

\* The FString FJsonSerializer::Serialize writes for a JSON object: two
\* texts are equal exactly when the objects are.
JsonText(JsonObject) == [json |-> JsonObject]

\* UBlueprintExporterLibrary::ExtractBlueprintData; TEXT("{}") is the text
\* of an object without fields.
ExtractBlueprintData(Bp) ==
    IF Bp = Null THEN JsonText(EmptyObject)
    ELSE JsonText(SerializeBlueprint(Bp))

\* The path handed to ExportBlueprintToFile.
FilePath == "Door.json"

\* ------------------------------------------------------------------------
\* Export calls
\* ------------------------------------------------------------------------
\* A call of ExtractBlueprintData(Blueprint).
CallExtractBlueprintData ==
    /\ pc = "ready"
    /\ ret' = [fn |-> "ExtractBlueprintData", value |-> ExtractBlueprintData(Blueprint)]
    /\ pc' = "done"
    /\ UNCHANGED <<Blueprint, Files, AssetRegistry>>
    /\ UNCHANGED monVars

\* Variant of CallExportBlueprintToFile without the null test.
CallExportBlueprintToFile_NoNullTest ==
    /\ pc = "ready"
    /\ \E saved \in BOOLEAN :
            /\ Files' = IF saved THEN (FilePath :> ExtractBlueprintData(Blueprint)) @@ Files
                        ELSE Files
            /\ ret' = [fn |-> "ExportBlueprintToFile", value |-> saved]
    /\ pc' = "done"
    /\ UNCHANGED <<Blueprint, AssetRegistry>>
    /\ UNCHANGED monVars

\* A call of ExportBlueprintToFile(Blueprint, FilePath); saved is the
\* outcome of FFileHelper::SaveStringToFile.
CallExportBlueprintToFile ==
    /\ pc = "ready"
    /\ IF Blueprint = Null
       THEN /\ ret' = [fn |-> "ExportBlueprintToFile", value |-> FALSE]
            /\ Files' = Files
       ELSE \E saved \in BOOLEAN :
                LET JsonString == ExtractBlueprintData(Blueprint)
                IN  /\ Files' = IF saved THEN (FilePath :> JsonString) @@ Files
                                ELSE Files
                    /\ ret' = [fn |-> "ExportBlueprintToFile", value |-> saved]
    /\ pc' = "done"
    /\ UNCHANGED <<Blueprint, AssetRegistry>>
    /\ UNCHANGED monVars

\* The directory handed to ExportAllBlueprints.
OutputDirectory == "Out"

\* FPaths::Combine of a directory and a file name.
Combine(Directory, FileName) ==
    IF Directory = "" THEN FileName ELSE Directory \o "/" \o FileName

\* UBlueprintExporterLibrary::GetAllProjectBlueprints: the loaded Blueprints
\* of the registry entries whose class path is that of UBlueprint, in
\* registry order.
GetAllProjectBlueprints(Registry) ==
    LET AssetDataList ==
            SelectSeq(Registry, LAMBDA AssetData :
                                    AssetData.AssetClassPath = BlueprintClassPath)
        Loaded == SelectSeq(AssetDataList,
                            LAMBDA AssetData : CastBlueprint(AssetData.Asset) # Null)
    IN  [i \in 1..Len(Loaded) |-> CastBlueprint(Loaded[i].Asset)]

\* The loop of ExportAllBlueprints from Blueprint i on: the files and the
\* count after ExportBlueprintToFile has run on Blueprints[i..], saved[j]
\* being the outcome of SaveStringToFile for Blueprints[j].
RECURSIVE ExportFrom(_, _, _, _, _)
ExportFrom(i, Blueprints, saved, files, ExportedCount) ==
    IF i > Len(Blueprints) THEN [Files |-> files, ExportedCount |-> ExportedCount]
    ELSE LET Path == Combine(OutputDirectory, Blueprints[i].Name \o ".json")
         IN  IF saved[i]
             THEN ExportFrom(i + 1, Blueprints, saved,
                             (Path :> ExtractBlueprintData(Blueprints[i])) @@ files,
                             ExportedCount + 1)
             ELSE ExportFrom(i + 1, Blueprints, saved, files, ExportedCount)

\* A call of ExportAllBlueprints(OutputDirectory).
CallExportAllBlueprints ==
    /\ pc = "ready"
    /\ LET Blueprints == GetAllProjectBlueprints(AssetRegistry)
       IN  \E saved \in [1..Len(Blueprints) -> BOOLEAN] :
               LET Result == ExportFrom(1, Blueprints, saved, Files, 0)
               IN  /\ Files' = Result.Files
                   /\ ret' = [fn |-> "ExportAllBlueprints",
                              value |-> Result.ExportedCount]
    /\ pc' = "done"
    /\ UNCHANGED <<Blueprint, AssetRegistry>>
    /\ UNCHANGED monVars

NextExport ==
    \/ CallExtractBlueprintData
    \/ CallExportBlueprintToFile
    \/ CallExportAllBlueprints

\* ------------------------------------------------------------------------
\* Inputs of the export calls
\* ------------------------------------------------------------------------
Obj(path) == [PathName |-> path]
Named(name) == [Name |-> name]

MkPinType(category, sub, isArray) ==
    [PinCategory |-> category, PinSubCategoryObject |-> sub, IsArray |-> isArray]

MkPin(name, direction, pinType, defaultValue, defaultObject, linkedTo) ==
    [PinName |-> name, DisplayName |-> name, Direction |-> direction,
     PinType |-> pinType, DefaultValue |-> defaultValue,
     DefaultObject |-> defaultObject, LinkedTo |-> linkedTo]

MkNode(name, class, category, pins, parent) ==
    [Name |-> name, Class |-> class, Title |-> class, MenuCategory |-> category,
     NodePosX |-> 0, NodePosY |-> 0, Pins |-> pins, MemberParentClass |-> parent]

MkGraph(name, nodes) == [Name |-> name, Nodes |-> nodes]

SCS_Door ==
    [AllNodes |-> <<[VariableName |-> "Mesh",
                     ComponentTemplate |-> [Class |-> "StaticMeshComponent"]],
                    Null,
                    [VariableName |-> "Orphan", ComponentTemplate |-> Null]>>]

MkBlueprint(uber, funcs, variables) ==
    [Name |-> "Door", PathName |-> "/Game/Door.Door",
     ParentClass |-> Named("Actor"), GeneratedClass |-> Named("Door_C"),
     UbergraphPages |-> uber, FunctionGraphs |-> funcs,
     NewVariables |-> variables, SimpleConstructionScript |-> SCS_Door,
     Class |-> "Blueprint"]

NodeNames == <<"Node_0", "Node_1", "Node_2", "Node_3", "Node_4", "Node_5">>
GraphNames == <<"EventGraph", "Graph_1", "Graph_2", "Graph_3", "Graph_4", "Graph_5">>

IntType == MkPinType("int", Null, FALSE)
ObjectType == MkPinType(PC_Object, Named("Actor"), FALSE)
ExecType == MkPinType(PC_Exec, Null, FALSE)
IntArrayType == MkPinType("int", Null, TRUE)

\* --- dependency inputs --------------------------------------------------
ObjectPin(path) == MkPin("Target", "EGPD_Input", ObjectType, "", Obj(path), <<>>)

\* Nodes without a name yet: call nodes whose member parent class is absent,
\* has an empty path or is /Script/A, with no pin or one object pin; a
\* branch node whose pins hit every skip of the pin loop; a null entry.
DepTemplates ==
    {MkNode("", "K2Node_CallFunction", "", pins, parent) :
        pins \in {<<>>, <<ObjectPin("/Game/B")>>, <<ObjectPin("/Game/C")>>},
        parent \in {Null, Obj(""), Obj("/Script/A")}}
    \cup {MkNode("", "K2Node_IfThenElse", "",
                 <<Null,
                   MkPin("Unset", "EGPD_Input", ObjectType, "", Null, <<>>),
                   MkPin("Count", "EGPD_Input", IntType, "1", Obj("/Game/B"), <<>>),
                   MkPin("Empty", "EGPD_Input", ObjectType, "", Obj(""), <<>>),
                   ObjectPin("/Script/A")>>,
                 Null),
          Null}

\* Non-decreasing assignments of n nodes to the graphs 1..slots.
Placements(slots, n) ==
    {pl \in [1..n -> 1..slots] : \A i \in 1..n, j \in 1..n : i <= j => pl[i] <= pl[j]}

\* The nodes placed in graph k, node i carrying the name NodeNames[i].
NodesOf(k, pl, fill) ==
    LET idx == SelectSeq([i \in 1..Len(fill) |-> i], LAMBDA i : pl[i] = k)
    IN  [j \in 1..Len(idx) |->
            IF fill[idx[j]] = Null THEN Null
            ELSE [fill[idx[j]] EXCEPT !.Name = NodeNames[idx[j]]]]

\* The Blueprint of g top-level graphs and f function graphs whose nodes are
\* those of fill, placed by pl.
DepBlueprint(g, f, pl, fill) ==
    MkBlueprint([k \in 1..g |-> MkGraph(GraphNames[k], NodesOf(k, pl, fill))],
                [k \in 1..f |-> MkGraph(GraphNames[g + k], NodesOf(g + k, pl, fill))],
                <<>>)

\* Blueprint is one whose graphs share at most MaxNodes nodes drawn from
\* DepTemplates.
IsDepBlueprint ==
    \E g \in 0..MaxGraphs, f \in 0..MaxFunctionGraphs, n \in 0..MaxNodes :
        \E pl \in Placements(g + f, n), fill \in [1..n -> DepTemplates] :
            Blueprint = DepBlueprint(g, f, pl, fill)

\* --- wiring inputs ------------------------------------------------------
WiredNodeNames == {NodeNames[1], NodeNames[2], NodeNames[3]}

\* A wire joins an output pin ("Then" or "Value") of one node to the input
\* pin "In" of another node.
PossibleWires ==
    {[from |-> a, out |-> o, to |-> b] :
        a \in WiredNodeNames, o \in {"Then", "Value"}, b \in WiredNodeNames} \
    {w \in [from : WiredNodeNames, out : {"Then", "Value"}, to : WiredNodeNames] :
        w.from = w.to}

\* Sequences of distinct wires, in the order the wires were made.
WireSeqs ==
    {ws \in SeqsUpTo(PossibleWires, MaxWires) :
        \A i \in 1..Len(ws), j \in 1..Len(ws) : i # j => ws[i] # ws[j]}

PinRef(node, pin) == [OwningNode |-> Named(node), PinName |-> pin]

\* Node n of the wired graph: LinkedTo of a pin lists the pins at the other
\* end of its wires, on both ends of every wire.
WiredNode(n, ws) ==
    LET OutLinks(o) == Map(LAMBDA w : PinRef(w.to, "In"),
                           SelectSeq(ws, LAMBDA w : w.from = n /\ w.out = o))
        InLinks == Map(LAMBDA w : PinRef(w.from, w.out),
                       SelectSeq(ws, LAMBDA w : w.to = n))
    IN  MkNode(n, "K2Node_CallFunction", "",
               <<MkPin("In", "EGPD_Input", ExecType, "", Null, InLinks),
                 MkPin("Then", "EGPD_Output", ExecType, "", Null, OutLinks("Then")),
                 MkPin("Value", "EGPD_Output", IntType, "", Null, OutLinks("Value"))>>,
               Null)

WireBlueprints ==
    {MkBlueprint(<<MkGraph(GraphNames[1],
                           <<WiredNode(NodeNames[1], ws), WiredNode(NodeNames[2], ws),
                             WiredNode(NodeNames[3], ws)>>)>>,
                 <<>>, <<>>) : ws \in WireSeqs}

\* --- node and variable inputs -------------------------------------------
NodeClasses ==
    {"K2Node_Event", "K2Node_CustomEvent", "K2Node_FunctionEntry",
     "K2Node_CallFunction", "K2Node_CallArrayFunction", "K2Node_VariableGet",
     "K2Node_VariableSet", "K2Node_IfThenElse", "EdGraphNode_Comment"}

PinTypes == {ExecType, IntType, ObjectType, IntArrayType}

NodePins ==
    {MkPin("Pin", d, t, v, Null, <<>>) :
        d \in {"EGPD_Input", "EGPD_Output"}, t \in PinTypes, v \in {"", "5"}}
    \cup {Null}

PinNames == <<"Pin_0", "Pin_1", "Pin_2", "Pin_3">>

\* Pin i of a node carries the name PinNames[i].
PinsByPosition(pins) ==
    [i \in 1..Len(pins) |->
        IF pins[i] = Null THEN Null
        ELSE [pins[i] EXCEPT !.PinName = PinNames[i], !.DisplayName = PinNames[i]]]

NodeBlueprints ==
    {MkBlueprint(<<MkGraph(GraphNames[1],
                           <<MkNode(NodeNames[1], c, cat, PinsByPosition(pins), Null)>>)>>,
                 <<>>, <<>>) :
        c \in NodeClasses, cat \in {"", "Math"}, pins \in SeqsUpTo(NodePins, MaxPins)}

VariableDescriptions ==
    {[VarName |-> "Health", VarType |-> t, Category |-> cat,
      PropertyFlags |-> flags, DefaultValue |-> v] :
        t \in {IntType, ObjectType}, cat \in {"", "Stats"},
        flags \in {{}, {"CPF_ExposeOnSpawn"}, {"CPF_Edit"}}, v \in {"", "100"}}

VariableBlueprints ==
    {[MkBlueprint(<<>>, <<>>, variables) EXCEPT
         !.ParentClass = parent, !.GeneratedClass = generated,
         !.SimpleConstructionScript = scs] :
        variables \in SeqsUpTo(VariableDescriptions, MaxVariables) \ {<<>>},
        parent \in {Named("Actor")}, generated \in {Named("Door_C")},
        scs \in {SCS_Door}}
    \cup
    {[MkBlueprint(<<>>, <<>>, <<>>) EXCEPT
         !.ParentClass = parent, !.GeneratedClass = generated,
         !.SimpleConstructionScript = scs] :
        parent \in {Null, Named("Actor")}, generated \in {Null, Named("Door_C")},
        scs \in {Null, SCS_Door}}

\* --- function inputs ----------------------------------------------------
ParamPins ==
    {MkPin("then", "EGPD_Output", ExecType, "", Null, <<>>),
     MkPin("Amount", "EGPD_Output", IntType, "", Null, <<>>),
     MkPin("Target", "EGPD_Output", ObjectType, "", Null, <<>>),
     MkPin("Self", "EGPD_Input", IntType, "", Null, <<>>),
     Null}

\* A call node with an output pin of its own.
ResultNode ==
    MkNode(NodeNames[2], "K2Node_CallFunction", "",
           <<MkPin("ReturnValue", "EGPD_Output", IntType, "", Null, <<>>)>>,
           Obj("/Script/A"))

\* Entry k of FunctionGraphs: a graph of an entry node with the given pins
\* and a call node, a graph without entry node, or a null entry.
FunctionGraphInput(k, kind, pins) ==
    CASE kind = "entry" ->
            MkGraph(GraphNames[k + 1],
                    <<MkNode(NodeNames[1], "K2Node_FunctionEntry", "", pins, Null),
                      ResultNode>>)
      [] kind = "plain" -> MkGraph(GraphNames[k + 1], <<Null, ResultNode>>)
      [] kind = "null"  -> Null

\* The pins placed on the entry node of function graph k.
PinsOf(k, pl, fill) ==
    LET idx == SelectSeq([i \in 1..Len(fill) |-> i], LAMBDA i : pl[i] = k)
    IN  [j \in 1..Len(idx) |-> fill[idx[j]]]

EventGraph ==
    MkGraph(GraphNames[1],
            <<MkNode(NodeNames[3], "K2Node_Event", "",
                     <<MkPin("then", "EGPD_Output", ExecType, "", Null, <<>>)>>, Null)>>)

\* Blueprint has at most MaxFunctions entries in FunctionGraphs, whose entry
\* nodes share at most MaxParams pins drawn from ParamPins, the pins of one
\* node being distinct.
IsFunctionBlueprint ==
    \E uber \in {<<>>, <<Null, EventGraph>>},
       f \in 0..MaxFunctions, n \in 0..MaxParams :
        \E kinds \in [1..f -> {"entry", "plain", "null"}],
           pl \in Placements(f, n), fill \in [1..n -> ParamPins] :
            /\ \A i \in 1..n : kinds[pl[i]] = "entry"
            /\ \A i \in 1..n, j \in 1..n :
                    (i < j /\ pl[i] = pl[j] /\ fill[i] # Null) => fill[i] # fill[j]
            /\ Blueprint =
                 MkBlueprint(uber,
                             [k \in 1..f |->
                                 FunctionGraphInput(k, kinds[k], PinsOf(k, pl, fill))],
                             <<>>)

\* ------------------------------------------------------------------------
\* Specifications of the export calls, one per family of inputs.  The
\* argument may always be nullptr.
\* ------------------------------------------------------------------------
\* A second Blueprint of the project.
Lamp ==
    [MkBlueprint(<<>>, <<>>, <<>>) EXCEPT !.Name = "Lamp", !.PathName = "/Game/Lamp.Lamp"]

\* The registry entry of a loaded asset.
AssetDataOf(obj) == [AssetClassPath |-> obj.Class, Asset |-> obj]

\* The registry of the project the Blueprint belongs to: the Blueprint
\* itself when there is one, Lamp, a Blueprint whose package cannot be
\* loaded, and a texture.
ProjectAssets(Bp) ==
    (IF Bp # Null THEN <<AssetDataOf(Bp)>> ELSE <<>>)
    \o <<AssetDataOf(Lamp),
         [AssetClassPath |-> BlueprintClassPath, Asset |-> Null],
         AssetDataOf(T_Wood)>>

\* Entries a registry can hold.
RegistryEntries ==
    {AssetDataOf(MkBlueprint(<<>>, <<>>, <<>>)), AssetDataOf(Lamp),
     [AssetClassPath |-> BlueprintClassPath, Asset |-> Null],
     AssetDataOf(WBP_Menu), AssetDataOf(T_Wood)}

InitCall ==
    /\ InitMonitor
    /\ pc = "ready"
    /\ ret = [fn |-> "none"]
    /\ Files = <<>>

InitDeps ==
    /\ InitCall
    /\ (Blueprint = Null \/ IsDepBlueprint)
    /\ AssetRegistry = ProjectAssets(Blueprint)

InitWires ==
    /\ InitCall
    /\ Blueprint \in WireBlueprints \cup {Null}
    /\ AssetRegistry = ProjectAssets(Blueprint)

InitNode ==
    /\ InitCall
    /\ Blueprint \in NodeBlueprints \cup VariableBlueprints \cup {Null}
    /\ AssetRegistry = ProjectAssets(Blueprint)

InitFunctions ==
    /\ InitCall
    /\ (Blueprint = Null \/ IsFunctionBlueprint)
    /\ AssetRegistry = ProjectAssets(Blueprint)

\* Any registry of at most MaxAssets entries, in any order.
InitRegistry ==
    /\ InitCall
    /\ Blueprint \in {Null, Lamp}
    /\ AssetRegistry \in SeqsUpTo(RegistryEntries, MaxAssets)

SpecDeps == InitDeps /\ [][NextExport]_vars
SpecWires == InitWires /\ [][NextExport]_vars
SpecNode == InitNode /\ [][NextExport]_vars
SpecFunctions == InitFunctions /\ [][NextExport]_vars
SpecRegistry == InitRegistry /\ [][NextExport]_vars

\* ------------------------------------------------------------------------
\* Properties of the export calls
\* ------------------------------------------------------------------------
\* ExtractBlueprintData has returned the document of a Blueprint.
HasDoc == pc = "done" /\ ret.fn = "ExtractBlueprintData" /\ Blueprint # Null

\* The document it returned.
Doc == ret.value.json

\* The graphs, nodes and pins that are present in the source.
TopGraphs == NonNull(Blueprint.UbergraphPages)
FuncGraphs == NonNull(Blueprint.FunctionGraphs)
SourceGraphs == TopGraphs \o FuncGraphs
SourceNodes(Graph) == NonNull(Graph.Nodes)
SourcePins(Node) == NonNull(Node.Pins)

NoDuplicates(seq) ==
    \A i \in 1..Len(seq), j \in 1..Len(seq) : i # j => seq[i] # seq[j]

\* Index of the first occurrence of e in seq.
FirstIndex(seq, e) ==
    CHOOSE i \in 1..Len(seq) : seq[i] = e /\ \A j \in 1..(i - 1) : seq[j] # e

\* seq lists each element of the set Range(met) \ skip once, ordered by
\* first occurrence in met.
IsFirstOccurrences(seq, met, skip) ==
    /\ NoDuplicates(seq)
    /\ Range(seq) = Range(met) \ skip
    /\ \A i \in 1..Len(seq), j \in 1..Len(seq) :
            i < j => FirstIndex(met, seq[i]) < FirstIndex(met, seq[j])

\* The references met on one node: the owning-type path of an external
\* call, then the default-object paths of its Object-typed ports.
MetOnNode(Node) ==
    LET ObjectPorts == SelectSeq(SourcePins(Node),
                                 LAMBDA Pin : /\ Pin.PinType.PinCategory = "object"
                                              /\ Pin.DefaultObject # Null)
    IN  (IF IsA(Node.Class, "K2Node_CallFunction") /\ Node.MemberParentClass # Null
         THEN <<Node.MemberParentClass.PathName>> ELSE <<>>)
        \o [i \in 1..Len(ObjectPorts) |-> ObjectPorts[i].DefaultObject.PathName]

\* The references met walking the given graphs in order.
RECURSIVE MetInNodes(_)
MetInNodes(Nodes) ==
    IF Nodes = <<>> THEN <<>> ELSE MetOnNode(Head(Nodes)) \o MetInNodes(Tail(Nodes))

RECURSIVE MetInGraphs(_)
MetInGraphs(Graphs) ==
    IF Graphs = <<>> THEN <<>>
    ELSE MetInNodes(SourceNodes(Head(Graphs))) \o MetInGraphs(Tail(Graphs))

\* C4: dependencies lists every non-empty path met during the walk exactly
\* once, ordered by first occurrence (graphs in order, nodes in order, per
\* node the call's owning-type path and then the object ports in port
\* order); it holds no empty path and no path that was not met.
C4_DependenciesAreFirstOccurrences ==
    HasDoc => IsFirstOccurrences(Doc.dependencies, MetInGraphs(TopGraphs), {""})

\* C4 witness: the walk meets /Script/A, /Game/B, /Script/A, /Game/C in
\* that order and the result is /Script/A, /Game/B, /Game/C.
C4_Witness ==
    /\ HasDoc
    /\ MetInGraphs(TopGraphs) = <<"/Script/A", "/Game/B", "/Script/A", "/Game/C">>
    /\ Doc.dependencies = <<"/Script/A", "/Game/B", "/Game/C">>

\* Paths met in function graphs and in no top-level graph.
FunctionOnlyPaths ==
    (Range(MetInGraphs(FuncGraphs)) \ Range(MetInGraphs(TopGraphs))) \ {""}

\* C5: a reference met only in function graphs is not in dependencies,
\* although the node that holds it is in graphs and in functions.
C5_FunctionGraphsNotScanned ==
    HasDoc =>
        /\ \A path \in FunctionOnlyPaths : path \notin Range(Doc.dependencies)
        /\ \A k \in 1..Len(FuncGraphs) :
              /\ Len(Doc.graphs[Len(TopGraphs) + k].nodes) = Len(SourceNodes(FuncGraphs[k]))
              /\ Len(Doc.functions[k].graph.nodes) = Len(SourceNodes(FuncGraphs[k]))

\* C5 witness: /Game/C is met only in a function graph, whose node is in
\* graphs and functions, and dependencies holds only /Script/A.
C5_Witness ==
    /\ HasDoc
    /\ FunctionOnlyPaths = {"/Game/C"}
    /\ Doc.dependencies = <<"/Script/A">>
    /\ Len(Doc.functions) = 1
    /\ Len(Doc.functions[1].graph.nodes) = 1
    /\ Len(Doc.graphs) = 2

\* The owners of the ports reached by the wires leaving the node's output
\* ports: ports in port order, wires in wire order.
RECURSIVE WireTargets(_)
WireTargets(Pins) ==
    IF Pins = <<>> THEN <<>>
    ELSE (IF Head(Pins).Direction = "EGPD_Output"
          THEN [i \in 1..Len(Head(Pins).LinkedTo) |->
                    Head(Pins).LinkedTo[i].OwningNode.Name]
          ELSE <<>>)
         \o WireTargets(Tail(Pins))

\* C6: connections of every node lists, once each and in first-seen order,
\* the nodes owning a port reached by a wire leaving one of the node's
\* output ports; wires on its input ports contribute nothing.
C6_ConnectionsAreOutputTargets ==
    HasDoc =>
        \A g \in 1..Len(SourceGraphs) :
            \A n \in 1..Len(SourceNodes(SourceGraphs[g])) :
                IsFirstOccurrences(Doc.graphs[g].nodes[n].connections,
                                   WireTargets(SourcePins(SourceNodes(SourceGraphs[g])[n])),
                                   {})

\* C6 witness: Node_0's output port Then is wired to Node_1 and to Node_2
\* and its port Value to Node_1 again; connections of Node_0 is Node_1,
\* Node_2, and Node_1, which has a wired input port only, has none.
C6_Witness ==
    /\ HasDoc
    /\ Len(Doc.graphs) = 1 /\ Len(Doc.graphs[1].nodes) = 3
    /\ LET Node == SourceNodes(SourceGraphs[1])[1]
       IN  /\ Len(Node.Pins) = 3
           /\ Node.Pins[2].LinkedTo = <<PinRef("Node_1", "In"), PinRef("Node_2", "In")>>
           /\ Node.Pins[3].LinkedTo = <<PinRef("Node_1", "In")>>
    /\ SourceNodes(SourceGraphs[1])[2].Pins[1].LinkedTo
            = <<PinRef("Node_0", "Then"), PinRef("Node_0", "Value")>>
    /\ Doc.graphs[1].nodes[1].connections = <<"Node_1", "Node_2">>
    /\ Doc.graphs[1].nodes[2].connections = <<>>

\* C7: with no Blueprint, ExtractBlueprintData returns the text of the
\* empty document and ExportBlueprintToFile returns false and writes no
\* file.
C7_NullBlueprintFails ==
    (pc = "done" /\ Blueprint = Null) =>
        /\ ret.fn = "ExtractBlueprintData" => ret.value = [json |-> EmptyObject]
        /\ ret.fn = "ExportBlueprintToFile" => (ret.value = FALSE /\ DOMAIN Files = {})

\* C7 witness: ExportBlueprintToFile was called with nullptr.
C7_Witness ==
    /\ pc = "done" /\ Blueprint = Null
    /\ ret.fn = "ExportBlueprintToFile"
    /\ ret.value = FALSE

\* The key default_value is in the record exactly when the literal is not
\* empty, and then holds the literal.
DefaultValueMatches(rec, literal) ==
    /\ "default_value" \in DOMAIN rec <=> literal # ""
    /\ "default_value" \in DOMAIN rec => rec["default_value"] = literal

\* C8: every port record and every variable record has the key
\* default_value iff the source default literal is non-empty, and then it
\* equals the literal.
C8_DefaultValueIffNonEmpty ==
    HasDoc =>
        /\ \A g \in 1..Len(SourceGraphs) :
             \A n \in 1..Len(SourceNodes(SourceGraphs[g])) :
               LET Node == SourceNodes(SourceGraphs[g])[n]
               IN  /\ Len(Doc.graphs[g].nodes[n].pins) = Len(SourcePins(Node))
                   /\ \A p \in 1..Len(SourcePins(Node)) :
                        DefaultValueMatches(Doc.graphs[g].nodes[n].pins[p],
                                            SourcePins(Node)[p].DefaultValue)
        /\ Len(Doc.variables) = Len(Blueprint.NewVariables)
        /\ \A v \in 1..Len(Blueprint.NewVariables) :
             DefaultValueMatches(Doc.variables[v], Blueprint.NewVariables[v].DefaultValue)

\* C8 witness: a variable with an empty default literal next to one with
\* the literal 100; only the second record has the key.
C8_Witness ==
    /\ HasDoc
    /\ Len(Blueprint.NewVariables) = 2
    /\ Blueprint.NewVariables[1].DefaultValue = ""
    /\ Blueprint.NewVariables[2].DefaultValue = "100"
    /\ "default_value" \notin DOMAIN Doc.variables[1]
    /\ "default_value" \in DOMAIN Doc.variables[2]
    /\ Doc.variables[2]["default_value"] = "100"

\* C8 witness for ports: a port with the default literal 5.
C8_PinWitness ==
    /\ HasDoc
    /\ Len(Doc.graphs) = 1 /\ Len(Doc.graphs[1].nodes) = 1
    /\ Len(Doc.graphs[1].nodes[1].pins) = 1
    /\ "default_value" \in DOMAIN Doc.graphs[1].nodes[1].pins[1]
    /\ Doc.graphs[1].nodes[1].pins[1]["default_value"] = "5"

\* The taxonomy tag a type string stands for; the code spells the tags
\* CallExternalFunction, VariableRead and VariableWrite as CallFunction,
\* VariableGet and VariableSet.
TagOf(type) ==
    CASE type = "Event"         -> "Event"
      [] type = "FunctionEntry" -> "FunctionEntry"
      [] type = "CallFunction"  -> "CallExternalFunction"
      [] type = "VariableGet"   -> "VariableRead"
      [] type = "VariableSet"   -> "VariableWrite"
      [] OTHER                  -> "Other"

\* The kinds of the taxonomy in priority order, with the class each tests.
TaxonomyOrder ==
    <<[tag |-> "Event", class |-> "K2Node_Event"],
      [tag |-> "FunctionEntry", class |-> "K2Node_FunctionEntry"],
      [tag |-> "CallExternalFunction", class |-> "K2Node_CallFunction"],
      [tag |-> "VariableRead", class |-> "K2Node_VariableGet"],
      [tag |-> "VariableWrite", class |-> "K2Node_VariableSet"]>>

\* The kinds a node of the class matches, as indices of TaxonomyOrder.
Matches(class) == {i \in 1..Len(TaxonomyOrder) : IsA(class, TaxonomyOrder[i].class)}

\* C9: the type of every serialized node carries the tag of the first kind
\* of the priority order the node matches; a node matching none carries
\* the tag Other and its concrete type name as the type string.
C9_ClassificationTotal ==
    HasDoc =>
        \A g \in 1..Len(SourceGraphs) :
            \A n \in 1..Len(SourceNodes(SourceGraphs[g])) :
                LET class == SourceNodes(SourceGraphs[g])[n].Class
                    type == Doc.graphs[g].nodes[n].type
                IN  IF Matches(class) = {}
                    THEN TagOf(type) = "Other" /\ type = class
                    ELSE \E i \in Matches(class) :
                            /\ \A j \in Matches(class) : i <= j
                            /\ TagOf(type) = TaxonomyOrder[i].tag

\* C9 witness: a K2Node_VariableSet node is tagged VariableWrite.
C9_Witness ==
    /\ HasDoc
    /\ Len(Doc.graphs) = 1 /\ Len(Doc.graphs[1].nodes) = 1
    /\ SourceNodes(SourceGraphs[1])[1].Class = "K2Node_VariableSet"
    /\ TagOf(Doc.graphs[1].nodes[1].type) = "VariableWrite"

\* C9 witness for the fallback: a comment node is tagged Other and carries
\* its class name.
C9_OtherWitness ==
    /\ HasDoc
    /\ Len(Doc.graphs) = 1 /\ Len(Doc.graphs[1].nodes) = 1
    /\ Doc.graphs[1].nodes[1].type = "EdGraphNode_Comment"

\* The record of a graph carries its name and one node record per node, in
\* node order.
IsRecordOf(rec, Graph) ==
    /\ rec.name = Graph.Name
    /\ Len(rec.nodes) = Len(SourceNodes(Graph))
    /\ \A n \in 1..Len(rec.nodes) : rec.nodes[n].id = SourceNodes(Graph)[n].Name

\* The (name, type) pairs of the output-direction, non-exec ports of the
\* FunctionEntry nodes of a graph, in port order.
RECURSIVE EntryParams(_)
EntryParams(Nodes) ==
    IF Nodes = <<>> THEN <<>>
    ELSE (IF IsA(Head(Nodes).Class, "K2Node_FunctionEntry")
          THEN LET Ports == SelectSeq(SourcePins(Head(Nodes)),
                                      LAMBDA Pin : /\ Pin.Direction = "EGPD_Output"
                                                   /\ Pin.PinType.PinCategory # "exec")
               IN  [i \in 1..Len(Ports) |->
                        [name |-> Ports[i].PinName,
                         type |-> PinTypeToString(Ports[i].PinType)]]
          ELSE <<>>)
         \o EntryParams(Tail(Nodes))

\* C10: graphs holds the records of the top-level graphs and then those of
\* the function graphs, each in source order; functions has one entry per
\* function graph in the same order, with the graph's name, the record the
\* graph has in graphs, and as parameters the output-direction, non-exec
\* ports of the graph's FunctionEntry node in port order.
C10_GraphsAndFunctionsAgree ==
    HasDoc =>
        /\ Len(Doc.graphs) = Len(TopGraphs) + Len(FuncGraphs)
        /\ \A k \in 1..Len(TopGraphs) : IsRecordOf(Doc.graphs[k], TopGraphs[k])
        /\ \A k \in 1..Len(FuncGraphs) :
              IsRecordOf(Doc.graphs[Len(TopGraphs) + k], FuncGraphs[k])
        /\ Len(Doc.functions) = Len(FuncGraphs)
        /\ \A k \in 1..Len(FuncGraphs) :
              /\ Doc.functions[k].name = FuncGraphs[k].Name
              /\ Doc.functions[k].graph = Doc.graphs[Len(TopGraphs) + k]
              /\ Doc.functions[k].parameters = EntryParams(SourceNodes(FuncGraphs[k]))

\* C10 witness: one top-level graph after a null entry and two function
\* graphs; the entry node of the first has the ports then (exec), Target
\* and Amount, that of the second has none.
C10_Witness ==
    /\ HasDoc
    /\ Len(Blueprint.UbergraphPages) = 2 /\ Len(Doc.graphs) = 3
    /\ Len(Doc.functions) = 2
    /\ Doc.functions[1].name = "Graph_1" /\ Doc.functions[2].name = "Graph_2"
    /\ Len(SourceNodes(FuncGraphs[1])) = 2 /\ Len(SourceNodes(FuncGraphs[2])) = 2
    /\ SourceNodes(FuncGraphs[1])[1].Pins
            = <<MkPin("then", "EGPD_Output", ExecType, "", Null, <<>>),
                MkPin("Target", "EGPD_Output", ObjectType, "", Null, <<>>),
                MkPin("Amount", "EGPD_Output", IntType, "", Null, <<>>)>>
    /\ Doc.functions[1].parameters = <<[name |-> "Target", type |-> "object<Actor>"],
                                       [name |-> "Amount", type |-> "int"]>>
    /\ Doc.functions[2].parameters = <<>>
    /\ Doc.graphs[3] = Doc.functions[2].graph

\* C10 witness for direction: the entry node has the input port Self and
\* the output port Amount; only Amount is a parameter.
C10_InputWitness ==
    /\ HasDoc
    /\ Len(Doc.functions) = 1
    /\ Len(SourceNodes(FuncGraphs[1])) = 2
    /\ SourceNodes(FuncGraphs[1])[1].Pins
            = <<MkPin("Self", "EGPD_Input", IntType, "", Null, <<>>),
                MkPin("Amount", "EGPD_Output", IntType, "", Null, <<>>)>>
    /\ Doc.functions[1].parameters = <<[name |-> "Amount", type |-> "int"]>>

\* The key is in the record exactly when the source reference exists, and
\* then holds the name of the referenced type.
ClassKeyMatches(rec, key, class) ==
    /\ key \in DOMAIN rec <=> class # Null
    /\ key \in DOMAIN rec => rec[key] = class.Name

\* The category string of a node: its menu category when it is a K2 node,
\* the empty string otherwise.
SourceCategory(Node) ==
    IF IsA(Node.Class, "K2Node") THEN Node.MenuCategory ELSE ""

\* C11 as stated: an absent optional value is omitted: no parent_class key
\* without a parent type, no generated_class key without a generated type,
\* and no category key in a node or variable record whose category is
\* empty.
C11_AbsentFieldsOmitted ==
    HasDoc =>
        /\ ClassKeyMatches(Doc, "parent_class", Blueprint.ParentClass)
        /\ ClassKeyMatches(Doc, "generated_class", Blueprint.GeneratedClass)
        /\ \A g \in 1..Len(SourceGraphs) :
             \A n \in 1..Len(SourceNodes(SourceGraphs[g])) :
                SourceCategory(SourceNodes(SourceGraphs[g])[n]) = "" =>
                    "category" \notin DOMAIN Doc.graphs[g].nodes[n]
        /\ \A v \in 1..Len(Blueprint.NewVariables) :
                Blueprint.NewVariables[v].Category = "" =>
                    "category" \notin DOMAIN Doc.variables[v]

\* C11 amended: parent_class and generated_class are in the document
\* exactly when the parent type and the generated type exist; every node
\* record and every variable record has the key category, which holds the
\* source category and is the empty string when that is empty.
C11_ClassKeysOmittedCategoryKept ==
    HasDoc =>
        /\ ClassKeyMatches(Doc, "parent_class", Blueprint.ParentClass)
        /\ ClassKeyMatches(Doc, "generated_class", Blueprint.GeneratedClass)
        /\ \A g \in 1..Len(SourceGraphs) :
             \A n \in 1..Len(SourceNodes(SourceGraphs[g])) :
                /\ "category" \in DOMAIN Doc.graphs[g].nodes[n]
                /\ Doc.graphs[g].nodes[n].category
                        = SourceCategory(SourceNodes(SourceGraphs[g])[n])
        /\ \A v \in 1..Len(Blueprint.NewVariables) :
                /\ "category" \in DOMAIN Doc.variables[v]
                /\ Doc.variables[v].category = Blueprint.NewVariables[v].Category

\* C11 witness: a Blueprint with a generated type and no parent type; the
\* document has generated_class and no parent_class.
C11_Witness ==
    /\ HasDoc
    /\ Blueprint.ParentClass = Null /\ Blueprint.GeneratedClass # Null
    /\ "parent_class" \notin DOMAIN Doc
    /\ "generated_class" \in DOMAIN Doc
    /\ Doc["generated_class"] = "Door_C"

\* C11 witness for the category: a variable with an empty category, whose
\* record holds category as the empty string.
C11_CategoryWitness ==
    /\ HasDoc
    /\ Len(Blueprint.NewVariables) = 1
    /\ Blueprint.NewVariables[1].Category = ""
    /\ "category" \in DOMAIN Doc.variables[1]
    /\ Doc.variables[1].category = ""

====
